---- MODULE Spec2Model ----
(***************************************************************************)
(* A model of fetch_github_actions_logs.py: the log analysis               *)
(* (analyze_log_errors), the per-job fetch-and-save step                   *)
(* (fetch_and_save_logs, get_job_logs) and the job loop of the script.     *)
(*                                                                         *)
(* Text is modelled character by character: a Python str is a sequence of  *)
(* one-character strings, so that substring tests, strip(), replace(),     *)
(* slicing and len() are computed as Python computes them.  The one        *)
(* non-ASCII character of the source, the bullet U+2022, is the element    *)
(* "u2022".  An optional value (None or a str) is the empty sequence or a  *)
(* one-element sequence holding the str.                                   *)
(***************************************************************************)
EXTENDS Integers, Sequences, FiniteSets, TLC

----------------------------------------------------------------------------
(* Python str operations used by the source *)

None == <<>>
\* the empty str
EMPTY == <<>>
Some(t) == <<t>>
IsNone(o) == o = <<>>
Val(o) == o[1]

\* truth value of an optional str: None and "" are both false (lines 375, 384, 413)
Truthy(o) == o # <<>> /\ o[1] # <<>>

Min2(a, b) == IF a < b THEN a ELSE b
Max2(a, b) == IF a > b THEN a ELSE b

\* s[:n]
Take(s, n) == SubSeq(s, 1, Min2(n, Len(s)))
\* s[-n:]
LastN(s, n) == SubSeq(s, Max2(1, Len(s) - n + 1), Len(s))

\* p occurs in s at position a (1-based)
MatchAt(s, p, a) == a >= 1 /\ a + Len(p) - 1 <= Len(s) /\ \A b \in 1..Len(p) : s[a + b - 1] = p[b]
Occurrences(s, p) == {a \in 1..(Len(s) - Len(p) + 1) : MatchAt(s, p, a)}
\* p in s
Contains(s, p) == \E a \in 1..(Len(s) - Len(p) + 1) : MatchAt(s, p, a)
SetMin(S) == CHOOSE x \in S : \A y \in S : x <= y
SetMax(S) == CHOOSE x \in S : \A y \in S : x >= y
\* s.find(p) + 1, 0 when p is not in s
Find(s, p) == IF Contains(s, p) THEN SetMin(Occurrences(s, p)) ELSE 0
\* s.startswith(p)
StartsWith(s, p) == MatchAt(s, p, 1)

\* str.isspace() of one character
IsSpace(c) == c \in {" ", "\t", "\n", "\r", "\f"}
IsDigit(c) == c \in {"0", "1", "2", "3", "4", "5", "6", "7", "8", "9"}

\* s.strip()
Strip(s) ==
    LET ns == {a \in 1..Len(s) : ~IsSpace(s[a])}
    IN  IF ns = {} THEN <<>> ELSE SubSeq(s, SetMin(ns), SetMax(ns))

\* s.replace(p, ''): the occurrences of p, left to right and not overlapping, removed
RECURSIVE RemoveAll(_, _)
RemoveAll(s, p) ==
    LET a == Find(s, p)
    IN  IF a = 0 THEN s
        ELSE SubSeq(s, 1, a - 1) \o RemoveAll(SubSeq(s, a + Len(p), Len(s)), p)

\* s.replace('\n', ' ')
CollapseNewlines(s) == [x \in 1..Len(s) |-> IF s[x] = "\n" THEN " " ELSE s[x]]

UpperCase == <<"A","B","C","D","E","F","G","H","I","J","K","L","M",
               "N","O","P","Q","R","S","T","U","V","W","X","Y","Z">>
LowerCase == <<"a","b","c","d","e","f","g","h","i","j","k","l","m",
               "n","o","p","q","r","s","t","u","v","w","x","y","z">>
LowerChar(c) ==
    IF \E n \in 1..26 : UpperCase[n] = c
    THEN LowerCase[CHOOSE n \in 1..26 : UpperCase[n] = c] ELSE c
\* s.lower()
Lower(s) == [x \in 1..Len(s) |-> LowerChar(s[x])]

\* s.split('\n')
Split(s) ==
    LET nl == {a \in 1..Len(s) : s[a] = "\n"}
        cut(n) == IF n = 0 THEN 0
                  ELSE IF n > Cardinality(nl) THEN Len(s) + 1
                  ELSE CHOOSE a \in nl : Cardinality({b \in nl : b < a}) = n - 1
    IN  [n \in 1..(Cardinality(nl) + 1) |-> SubSeq(s, cut(n - 1) + 1, cut(n) - 1)]

\* '\n'.join(ls)
RECURSIVE Join(_)
Join(ls) ==
    IF Len(ls) = 0 THEN <<>>
    ELSE IF Len(ls) = 1 THEN ls[1]
    ELSE Join(SubSeq(ls, 1, Len(ls) - 1)) \o <<"\n">> \o ls[Len(ls)]

\* c * n
Repeat(c, n) == [x \in 1..n |-> c]

\* str(n) for n >= 0
DigitChars == <<"0","1","2","3","4","5","6","7","8","9">>
RECURSIVE Str(_)
Str(n) == IF n < 10 THEN <<DigitChars[n + 1]>> ELSE Str(n \div 10) \o <<DigitChars[(n % 10) + 1]>>

----------------------------------------------------------------------------
(* The literals of analyze_log_errors *)

\* line 356
MARK_GROUP == <<"#","#","[","g","r","o","u","p","]">>
\* line 364
MARK_ENDGROUP == <<"#","#","[","e","n","d","g","r","o","u","p","]">>
\* line 370
MARK_COMMAND == <<"#","#","[","c","o","m","m","a","n","d","]">>
\* line 379
MARK_ERROR == <<"#","#","[","e","r","r","o","r","]">>
\* line 399, 450
MARK_HASHES == <<"#","#">>
\* line 399
MARK_YEAR == <<"2","0","2","5","-">>
\* line 457
MARK_ANY == <<"#","#","[">>
\* line 407
EXIT_PHRASE == <<"P","r","o","c","e","s","s"," ","c","o","m","p","l","e","t","e","d"," ","w",
    "i","t","h"," ","e","x","i","t"," ","c","o","d","e">>
\* line 408, the literal part of r'exit code (\d+)'
EXIT_RE == <<"e","x","i","t"," ","c","o","d","e"," ">>
\* line 424
TRACEBACK_CAP == <<"T","r","a","c","e","b","a","c","k">>
\* line 424
TRACEBACK_LOW == <<"t","r","a","c","e","b","a","c","k">>
\* line 446
RE_ERROR_COLON == <<"E","r","r","o","r",":">>
\* line 446
RE_EXCEPTION_COLON == <<"E","x","c","e","p","t","i","o","n",":">>
\* line 446
RE_WARNING_COLON == <<"W","a","r","n","i","n","g",":">>
\* line 457, 459
FILE_QUOTE == <<"F","i","l","e"," ","\"">>
\* line 476
RE_FAILED == <<"F","A","I","L","E","D">>
\* line 476
RE_ERROR == <<"E","R","R","O","R">>
\* line 476
RE_FAIL == <<"F","A","I","L">>
\* line 476
WORD_TEST == <<"t","e","s","t">>
\* line 476
WORD_PYTEST == <<"p","y","t","e","s","t">>
\* line 376
COMMAND_PREFIX == <<"C","o","m","m","a","n","d",":"," ">>
\* line 421
EXITED_PREFIX == <<"P","r","o","c","e","s","s"," ","e","x","i","t","e","d"," ","w","i","t","h",
    " ","c","o","d","e"," ">>

----------------------------------------------------------------------------
(* analyze_log_errors: the scan of the lines (lines 346-487).              *)
(* The scan state is a record s with the fields current_step, step_stack,  *)
(* failed_steps, error_messages, in_error_section, error_context,          *)
(* exit_codes, tb_lines, j, k and raised; each block of the loop body is   *)
(* an operator from the record before the block to the record after it.    *)

\* the caps of the source
COMMAND_CAP == 50
CONTEXT_LIMIT == 8
TRACEBACK_WINDOW == 40
TRAILING_WINDOW == 5
RECENT_LINES == 3
TRACEBACK_JOIN == 30
TRACEBACK_PREVIEW == 1000
TEST_LINE_CAP == 200
STEP_PREVIEW_CAP == 250
KEY_ERROR_CAP == 300
KEY_ERROR_COUNT == 5
EXIT_CODE_COUNT == 5
BANNER_WIDTH == 80

\* lines[n] of the source, n counted from 0
LineAt(ls, n) == ls[n + 1]

\* the text after the first occurrence of marker m when re.search(m + '(.+)', line)
\* matches, as an optional: (.+) needs at least one character after the marker
AfterMarker(line, m) ==
    LET a == Find(line, m)
    IN  IF a = 0 \/ a + Len(m) > Len(line) THEN None
        ELSE Some(SubSeq(line, a + Len(m), Len(line)))

\* the index in failed_steps of the first step named n, 0 when there is none
StepIndex(fs, n) ==
    IF \E x \in 1..Len(fs) : fs[x].name = n
    THEN SetMin({x \in 1..Len(fs) : fs[x].name = n}) ELSE 0

NewStep(n, errs) == [name |-> n, errors |-> errs]
AddError(fs, x, e) == [fs EXCEPT ![x].errors = Append(@, e)]
InErrors(fs, x, e) == \E y \in 1..Len(fs[x].errors) : fs[x].errors[y] = e

GroupOpen(s, line) ==
    IF Contains(line, MARK_GROUP) /\ ~IsNone(AfterMarker(line, MARK_GROUP))
    THEN LET step_name == Strip(Val(AfterMarker(line, MARK_GROUP)))
         IN  [s EXCEPT !.step_stack = Append(@, step_name),
                       !.current_step = Some(step_name)]
    ELSE s

GroupClose(s, line) ==
    IF Contains(line, MARK_ENDGROUP) /\ s.step_stack # <<>>
    THEN LET popped == SubSeq(s.step_stack, 1, Len(s.step_stack) - 1)
         IN  [s EXCEPT !.step_stack = popped,
                       !.current_step = IF popped # <<>> THEN Some(popped[Len(popped)])
                                        ELSE None]
    ELSE s

CommandName(cmd) == COMMAND_PREFIX \o Take(cmd, COMMAND_CAP)

Command(s, line) ==
    IF Contains(line, MARK_COMMAND) /\ ~IsNone(AfterMarker(line, MARK_COMMAND))
    THEN LET cmd == Strip(Val(AfterMarker(line, MARK_COMMAND)))
         IN  IF ~Truthy(s.current_step)
             THEN [s EXCEPT !.current_step = Some(CommandName(cmd))]
             ELSE s
    ELSE s

\* lines 384-394: the error text goes to the step named current_step
AttributeError(fs, step_name, error_text) ==
    LET x == StepIndex(fs, step_name)
    IN  IF x # 0 THEN AddError(fs, x, error_text)
        ELSE Append(fs, NewStep(step_name, <<error_text>>))

ErrorMarker(s, line) ==
    IF Contains(line, MARK_ERROR)
    THEN LET error_text == Strip(RemoveAll(line, MARK_ERROR))
         IN  IF error_text # <<>>
             THEN [s EXCEPT !.in_error_section = TRUE,
                            !.error_messages = Append(@, error_text),
                            !.failed_steps =
                                IF Truthy(s.current_step)
                                THEN AttributeError(@, Val(s.current_step), error_text)
                                ELSE @,
                            !.error_context = <<error_text>>]
             ELSE [s EXCEPT !.in_error_section = TRUE]
    ELSE IF s.in_error_section
    THEN IF Strip(line) # <<>> /\ ~(StartsWith(line, MARK_HASHES) \/ StartsWith(line, MARK_YEAR))
         THEN [s EXCEPT !.error_context = Append(@, Strip(line)),
                        !.in_error_section = ~(Len(s.error_context) + 1 > CONTEXT_LIMIT)]
         ELSE IF Contains(line, MARK_GROUP) \/ Contains(line, MARK_ENDGROUP)
         THEN [s EXCEPT !.in_error_section = FALSE]
         ELSE s
    ELSE s

\* re.search(r'exit code (\d+)', line): group(1) of the leftmost match, as an optional
ExitCodeMatch(line) ==
    LET at == {a \in Occurrences(line, EXIT_RE) :
                  a + Len(EXIT_RE) <= Len(line) /\ IsDigit(line[a + Len(EXIT_RE)])}
    IN  IF at = {} THEN None
        ELSE LET d == SetMin(at) + Len(EXIT_RE)
                 stop == {b \in d..Len(line) : ~IsDigit(line[b])}
             IN  Some(SubSeq(line, d, IF stop = {} THEN Len(line) ELSE SetMin(stop) - 1))

ExitedMessage(code) == EXITED_PREFIX \o code

ExitCodeStep_NoLookup(fs, current_step, code) ==
    IF code # <<"0">> /\ Truthy(current_step)
    THEN Append(fs, NewStep(Val(current_step), <<ExitedMessage(code)>>))
    ELSE fs

\* lines 412-421: a step is created for a non-zero code, only when there is a current step
ExitCodeStep(fs, current_step, code) ==
    IF code # <<"0">> /\ Truthy(current_step) /\ StepIndex(fs, Val(current_step)) = 0
    THEN Append(fs, NewStep(Val(current_step), <<ExitedMessage(code)>>))
    ELSE fs

ExitCode(s, line) ==
    IF Contains(line, EXIT_PHRASE) /\ ~IsNone(ExitCodeMatch(line))
    THEN LET code == Val(ExitCodeMatch(line))
         IN  [s EXCEPT !.exit_codes = Append(@, <<code, s.current_step>>),
                       !.failed_steps = ExitCodeStep(@, s.current_step, code)]
    ELSE s

\* line 424
TracebackTrigger(line) == Contains(line, TRACEBACK_CAP) \/ Contains(Lower(line), TRACEBACK_LOW)

\* lines 443-446: the three re.match alternatives each imply the re.search one
ExceptionLine(l) ==
    Contains(l, RE_ERROR_COLON) \/ Contains(l, RE_EXCEPTION_COLON) \/ Contains(l, RE_WARNING_COLON)

\* lines 457-460, reached only while exception_found is False
MarkerBreak(next_line, tb) ==
    /\ Contains(next_line, MARK_ANY)
    /\ ~Contains(next_line, TRACEBACK_CAP)
    /\ ~Contains(next_line, FILE_QUOTE)
    /\ ~\E x \in 1..Len(LastN(tb, RECENT_LINES)) : Contains(LastN(tb, RECENT_LINES)[x], FILE_QUOTE)

WindowStop_NoMin(n, len) == n + TRACEBACK_WINDOW
TrailingStop_Short(n, len) == Min2(n + TRAILING_WINDOW - 1, len)

\* the stop values of range(i + 1, min(i + 40, len(lines))) and range(j + 1, min(j + 5, len(lines)))
WindowStop(n, len) == Min2(n + TRACEBACK_WINDOW, len)
TrailingStop(n, len) == Min2(n + TRAILING_WINDOW, len)

\* lines 449-453: the lines after the exception line; acc is [tb_lines, j, k, raised]
RECURSIVE Trailing(_, _, _, _)
Trailing(ls, acc, kk, stop) ==
    IF kk >= stop THEN acc
    ELSE IF kk >= Len(ls) THEN [acc EXCEPT !.k = kk, !.raised = TRUE]
    ELSE IF Strip(LineAt(ls, kk)) # <<>> /\ ~StartsWith(Strip(LineAt(ls, kk)), MARK_HASHES)
    THEN Trailing(ls, [acc EXCEPT !.k = kk, !.tb_lines = Append(@, LineAt(ls, kk))], kk + 1, stop)
    ELSE [acc EXCEPT !.k = kk]

\* lines 438-460: the lookahead loop over j
RECURSIVE Capture(_, _, _, _)
Capture(ls, acc, jj, stop) ==
    IF jj >= stop THEN acc
    ELSE IF jj >= Len(ls) THEN [acc EXCEPT !.j = jj, !.raised = TRUE]
    ELSE LET next_line == LineAt(ls, jj)
             acc1 == [acc EXCEPT !.j = jj, !.tb_lines = Append(@, next_line)]
         IN  IF ExceptionLine(next_line)
             THEN Trailing(ls, acc1, jj + 1, TrailingStop(jj, Len(ls)))
             ELSE IF MarkerBreak(next_line, acc1.tb_lines) THEN acc1
             ELSE Capture(ls, acc1, jj + 1, stop)

TracebackText_NoCut(tb) == Join(tb)

\* line 463
TracebackText(tb) == Join(Take(tb, TRACEBACK_JOIN))
\* line 470
TracebackPreview(tb_text) == Take(tb_text, TRACEBACK_PREVIEW)

\* lines 425-433
EnsureStep(fs, current_step) ==
    IF Truthy(current_step) /\ StepIndex(fs, Val(current_step)) = 0
    THEN Append(fs, NewStep(Val(current_step), <<>>))
    ELSE fs

\* lines 466-473
AddTraceback(fs, current_step, tb_text) ==
    IF Truthy(current_step) /\ StepIndex(fs, Val(current_step)) # 0
    THEN LET x == StepIndex(fs, Val(current_step))
         IN  IF ~InErrors(fs, x, TracebackPreview(tb_text))
             THEN AddError(fs, x, TracebackPreview(tb_text)) ELSE fs
    ELSE fs

Traceback(s, ls, n) ==
    IF TracebackTrigger(LineAt(ls, n))
    THEN LET cap == Capture(ls, [tb_lines |-> <<LineAt(ls, n)>>, j |-> s.j, k |-> s.k,
                                 raised |-> s.raised], n + 1, WindowStop(n, Len(ls)))
             tb_text == TracebackText(cap.tb_lines)
         IN  IF cap.raised
             THEN [s EXCEPT !.failed_steps = EnsureStep(@, s.current_step),
                            !.tb_lines = cap.tb_lines, !.j = cap.j, !.k = cap.k,
                            !.raised = TRUE]
             ELSE [s EXCEPT !.failed_steps =
                                AddTraceback(EnsureStep(@, s.current_step), s.current_step, tb_text),
                            !.error_messages = Append(@, tb_text),
                            !.tb_lines = cap.tb_lines, !.j = cap.j, !.k = cap.k]
    ELSE s

\* line 476: FAILED implies FAIL and pytest implies test, the tests are kept as written
TestFailureLine(line) ==
    /\ Contains(line, RE_FAILED) \/ Contains(line, RE_ERROR) \/ Contains(line, RE_FAIL)
    /\ Contains(Lower(line), WORD_TEST) \/ Contains(Lower(line), WORD_PYTEST)

TestLine_NoCap(line) == Strip(line)

\* lines 484, 487
TestLine(line) == Take(Strip(line), TEST_LINE_CAP)

\* lines 477-487
AddTestFailure(fs, step_name, line) ==
    LET x == StepIndex(fs, step_name)
    IN  IF x # 0
        THEN IF ~InErrors(fs, x, Strip(line)) THEN AddError(fs, x, TestLine(line)) ELSE fs
        ELSE Append(fs, NewStep(step_name, <<TestLine(line)>>))

TestFailure(s, line) ==
    IF TestFailureLine(line) /\ Truthy(s.current_step)
    THEN [s EXCEPT !.failed_steps = AddTestFailure(@, Val(s.current_step), line)]
    ELSE s

\* the body of the loop of line 354 for line number n (from 0)
LineStep(s, ls, n) ==
    LET line == LineAt(ls, n)
        s1 == GroupOpen(s, line)
        s2 == GroupClose(s1, line)
        s3 == Command(s2, line)
        s4 == ErrorMarker(s3, line)
        s5 == ExitCode(s4, line)
        s6 == Traceback(s5, ls, n)
    IN  IF s6.raised THEN s6 ELSE TestFailure(s6, line)

\* lines 346-352
ScanInit ==
    [current_step |-> None, step_stack |-> <<>>, failed_steps |-> <<>>,
     error_messages |-> <<>>, in_error_section |-> FALSE, error_context |-> <<>>,
     exit_codes |-> <<>>, tb_lines |-> <<>>, j |-> -1, k |-> -1, raised |-> FALSE]

\* line 342
BANNER_TITLE == <<"E","R","R","O","R"," ","S","U","M","M","A","R","Y"," ","-"," ","I","s","s",
    "u","e","s"," ","F","o","u","n","d"," ","i","n"," ","T","h","i","s"," ","W","o","r","k","f",
    "l","o","w"," ","R","u","n">>
\* line 491
FAILED_STEPS_HEAD == <<"F","A","I","L","E","D"," ","S","T","E","P","S",":">>
\* lines 494, 538
BULLET == <<" "," ","u2022"," ">>
\* line 499
ERROR_LABEL == <<" "," "," "," ","E","r","r","o","r",":"," ">>
\* line 501
MORE_OPEN == <<" "," "," "," ","(">>
\* line 501
MORE_CLOSE == <<" ","m","o","r","e"," ","e","r","r","o","r","(","s",")"," ","-"," ","s","e","e",
    " ","f","u","l","l"," ","l","o","g",")">>
\* line 505
KEY_ERRORS_HEAD == <<"K","E","Y"," ","E","R","R","O","R"," ","M","E","S","S","A","G","E","S",
    ":">>
\* line 510
ELLIPSIS == <<".",".",".">>
\* line 535
DETECTED_HEAD == <<"D","E","T","E","C","T","E","D"," ","I","S","S","U","E"," ","T","Y","P","E",
    "S",":">>
\* line 544
NON_ZERO_HEAD == <<"N","O","N","-","Z","E","R","O"," ","E","X","I","T"," ","C","O","D","E","S",
    ":">>
\* line 548
EXIT_BULLET == <<" "," ","u2022"," ","E","x","i","t"," ","c","o","d","e"," ">>
\* line 548
EXIT_IN == <<" ","i","n",":"," ">>
\* line 547
UNKNOWN_STEP == <<"U","n","k","n","o","w","n"," ","s","t","e","p">>
\* line 552
FALLBACK_1 == <<"N","o"," ","e","x","p","l","i","c","i","t"," ","e","r","r","o","r","s"," ","d",
    "e","t","e","c","t","e","d"," ","i","n"," ","l","o","g"," ","f","o","r","m","a","t",".">>
\* line 553
FALLBACK_2 == <<"C","h","e","c","k"," ","t","h","e"," ","f","u","l","l"," ","l","o","g"," ","b",
    "e","l","o","w"," ","f","o","r"," ","d","e","t","a","i","l","s",".">>
\* line 557
FULL_LOG == <<"F","u","l","l"," ","l","o","g"," ","f","o","l","l","o","w","s"," ","b","e","l",
    "o","w",":">>

\* lines 515-526: the table, in the order of the dict; an alternative is a literal,
\* a literal followed by \d+ (digits), or two literals with .* between them (gap)
Lit(a) == [kind |-> "lit", pre |-> a, post |-> <<>>]
Digits(a) == [kind |-> "digits", pre |-> a, post |-> <<>>]
Gap(a, b) == [kind |-> "gap", pre |-> a, post |-> b]

failure_patterns ==
    <<
     [alts |-> <<Lit(<<"I","m","p","o","r","t","E","r","r","o","r">>),
                 Lit(<<"c","a","n","n","o","t"," ","i","m","p","o","r","t">>)>>,
      description |-> <<"I","m","p","o","r","t"," ","e","r","r","o","r"," ","d","e","t","e","c","t","e","d">>],
     [alts |-> <<Lit(<<"A","t","t","r","i","b","u","t","e","E","r","r","o","r">>),
                 Lit(<<"h","a","s"," ","n","o"," ","a","t","t","r","i","b","u","t","e">>)>>,
      description |-> <<"A","t","t","r","i","b","u","t","e"," ","e","r","r","o","r"," ","d","e","t","e","c","t","e","d">>],
     [alts |-> <<Lit(<<"T","y","p","e","E","r","r","o","r">>),
                 Lit(<<"u","n","s","u","p","p","o","r","t","e","d"," ","o","p","e","r","a","n","d">>)>>,
      description |-> <<"T","y","p","e"," ","e","r","r","o","r"," ","d","e","t","e","c","t","e","d">>],
     [alts |-> <<Lit(<<"V","a","l","u","e","E","r","r","o","r">>),
                 Lit(<<"i","n","v","a","l","i","d"," ","v","a","l","u","e">>)>>,
      description |-> <<"V","a","l","u","e"," ","e","r","r","o","r"," ","d","e","t","e","c","t","e","d">>],
     [alts |-> <<Lit(<<"C","o","n","n","e","c","t","i","o","n","E","r","r","o","r">>),
                 Lit(<<"C","o","n","n","e","c","t","i","o","n"," ","r","e","f","u","s","e","d">>),
                 Lit(<<"C","o","n","n","e","c","t","i","o","n"," ","t","i","m","e","o","u","t">>)>>,
      description |-> <<"C","o","n","n","e","c","t","i","o","n"," ","e","r","r","o","r"," ","d","e","t","e","c","t","e","d">>],
     [alts |-> <<Lit(<<"T","i","m","e","o","u","t","E","r","r","o","r">>),
                 Lit(<<"t","i","m","e","d"," ","o","u","t">>)>>,
      description |-> <<"T","i","m","e","o","u","t"," ","e","r","r","o","r"," ","d","e","t","e","c","t","e","d">>],
     [alts |-> <<Lit(<<"A","s","s","e","r","t","i","o","n","E","r","r","o","r">>),
                 Gap(<<"a","s","s","e","r","t">>,
                    <<"f","a","i","l","e","d">>)>>,
      description |-> <<"T","e","s","t"," ","a","s","s","e","r","t","i","o","n"," ","f","a","i","l","e","d">>],
     [alts |-> <<Lit(<<"H","T","T","P","E","r","r","o","r">>),
                 Digits(<<"H","T","T","P"," ">>)>>,
      description |-> <<"H","T","T","P"," ","e","r","r","o","r"," ","d","e","t","e","c","t","e","d">>],
     [alts |-> <<Lit(<<"D","a","t","a","b","a","s","e"," ","e","r","r","o","r">>),
                 Gap(<<"d","a","t","a","b","a","s","e">>,
                    <<"e","r","r","o","r">>),
                 Gap(<<"p","s","q","l">>,
                    <<"e","r","r","o","r">>)>>,
      description |-> <<"D","a","t","a","b","a","s","e"," ","e","r","r","o","r"," ","d","e","t","e","c","t","e","d">>],
     [alts |-> <<Gap(<<"T","e","s","t">>,
                    <<"f","a","i","l","e","d">>),
                 Gap(<<"p","y","t","e","s","t">>,
                    <<"F","A","I","L","E","D">>)>>,
      description |-> <<"T","e","s","t"," ","f","a","i","l","u","r","e"," ","d","e","t","e","c","t","e","d">>]
    >>

\* re.search(alt, folded, re.IGNORECASE) for one alternative, where folded is the text
\* searched with its letters already folded to lower case, as re.IGNORECASE compares
\* them; "." does not match a newline
AltMatches(alt, folded) ==
    LET pre == Lower(alt.pre)
        post == Lower(alt.post)
    IN  CASE alt.kind = "lit" -> Contains(folded, pre)
          [] alt.kind = "digits" ->
                \E a \in Occurrences(folded, pre) :
                    a + Len(pre) <= Len(folded) /\ IsDigit(folded[a + Len(pre)])
          [] alt.kind = "gap" ->
                \E a \in Occurrences(folded, pre) : \E b \in Occurrences(folded, post) :
                    /\ b >= a + Len(pre)
                    /\ \A c \in (a + Len(pre))..(b - 1) : folded[c] # "\n"

\* re.search(pattern, text, re.IGNORECASE) for one entry of the table
PatternMatches(entry, folded) ==
    \E x \in 1..Len(entry.alts) : AltMatches(entry.alts[x], folded)

RECURSIVE DetectFrom_Reversed(_, _, _)
DetectFrom_Reversed(table, folded, n) ==
    IF n > Len(table) THEN <<>>
    ELSE DetectFrom_Reversed(table, folded, n + 1)
         \o (IF PatternMatches(table[n], folded) THEN <<table[n].description>> ELSE <<>>)

\* lines 530-532: one description for each entry that matches, in the order of the table
RECURSIVE DetectFrom(_, _, _)
DetectFrom(table, folded, n) ==
    IF n > Len(table) THEN <<>>
    ELSE (IF PatternMatches(table[n], folded) THEN <<table[n].description>> ELSE <<>>)
         \o DetectFrom(table, folded, n + 1)

\* lines 528-532; logs_lower = text.lower() is what is searched
DetectPatterns(text) ==
    LET logs_lower == Lower(text)
    IN  DetectFrom(failure_patterns, Lower(logs_lower), 1)

----------------------------------------------------------------------------
(* analyze_log_errors: the summary (lines 340-344 and 489-561) *)

Rule(c) == Repeat(c, BANNER_WIDTH)

\* lines 341-344
Header == <<Rule("="), BANNER_TITLE, Rule("="), EMPTY>>

\* line 498
ErrorPreview(first_error) == Take(Strip(CollapseNewlines(first_error)), STEP_PREVIEW_CAP)

\* line 501
MoreErrors(errors) == MORE_OPEN \o Str(Len(errors)) \o MORE_CLOSE

\* lines 494-501
StepLines(step) ==
    <<BULLET \o step.name>>
    \o (IF step.errors # <<>>
        THEN <<ERROR_LABEL \o ErrorPreview(step.errors[1])>>
             \o (IF Len(step.errors) > 1 THEN <<MoreErrors(step.errors)>> ELSE <<>>)
        ELSE <<>>)

RECURSIVE AllStepLines(_)
AllStepLines(fs) ==
    IF fs = <<>> THEN <<>> ELSE StepLines(Head(fs)) \o AllStepLines(Tail(fs))

\* lines 490-502
FailedStepsSection(fs) ==
    IF fs # <<>>
    THEN <<FAILED_STEPS_HEAD, Rule("-")>> \o AllStepLines(fs) \o <<EMPTY>>
    ELSE <<>>

\* lines 508-510
KeyErrorClean(error) ==
    Take(Strip(CollapseNewlines(error)), KEY_ERROR_CAP)
    \o (IF Len(error) > KEY_ERROR_CAP THEN ELLIPSIS ELSE <<>>)

KeyErrorLine(n, error) == <<" ", " ">> \o Str(n) \o <<".", " ">> \o KeyErrorClean(error)

\* lines 504-512
KeyErrorsSection(em) ==
    IF em # <<>>
    THEN <<KEY_ERRORS_HEAD, Rule("-")>>
         \o [n \in 1..Len(Take(em, KEY_ERROR_COUNT)) |-> KeyErrorLine(n, em[n])]
         \o <<EMPTY>>
    ELSE <<>>

\* lines 534-539
DetectedSection(dp) ==
    IF dp # <<>>
    THEN <<DETECTED_HEAD, Rule("-")>> \o [n \in 1..Len(dp) |-> BULLET \o dp[n]] \o <<EMPTY>>
    ELSE <<>>

\* line 542
NonZero(ec) == SelectSeq(ec, LAMBDA e : e[1] # <<"0">>)

\* lines 547-548
ExitCodeLine(e) ==
    EXIT_BULLET \o e[1] \o EXIT_IN \o (IF Truthy(e[2]) THEN Val(e[2]) ELSE UNKNOWN_STEP)

\* lines 541-549
ExitCodesSection(ec) ==
    IF ec # <<>> /\ NonZero(ec) # <<>>
    THEN <<NON_ZERO_HEAD, Rule("-")>>
         \o [n \in 1..Len(Take(NonZero(ec), EXIT_CODE_COUNT)) |-> ExitCodeLine(NonZero(ec)[n])]
         \o <<EMPTY>>
    ELSE <<>>

\* line 551
NothingFound(fs, em, dp, ec) == fs = <<>> /\ em = <<>> /\ ec = <<>>

\* lines 551-554
FallbackSection(fs, em, dp, ec) ==
    IF NothingFound(fs, em, dp, ec) THEN <<FALLBACK_1, FALLBACK_2, EMPTY>> ELSE <<>>

\* lines 556-559
Trailer == <<Rule("="), FULL_LOG, Rule("="), EMPTY>>

\* lines 489-559: what is appended to summary_lines after the scan
Sections(fs, em, dp, ec) ==
    FailedStepsSection(fs) \o KeyErrorsSection(em) \o DetectedSection(dp)
    \o ExitCodesSection(ec) \o FallbackSection(fs, em, dp, ec) \o Trailer

----------------------------------------------------------------------------
(* Lines of the logs analysed *)

L_GROUP_BUILD == <<"#","#","[","g","r","o","u","p","]","B","u","i","l","d">>
L_GROUP_BLANK == <<"#","#","[","g","r","o","u","p","]"," "," ">>
L_ENDGROUP == <<"#","#","[","e","n","d","g","r","o","u","p","]">>
L_COMMAND == <<"#","#","[","c","o","m","m","a","n","d","]","m","a","k","e">>
L_ERROR == <<"#","#","[","e","r","r","o","r","]","C","o","m","p","i","l","e"," ","f","a","i",
    "l","e","d">>
L_EXIT_1 == <<"P","r","o","c","e","s","s"," ","c","o","m","p","l","e","t","e","d"," ","w","i",
    "t","h"," ","e","x","i","t"," ","c","o","d","e"," ","1">>
L_EXIT_0 == <<"P","r","o","c","e","s","s"," ","c","o","m","p","l","e","t","e","d"," ","w","i",
    "t","h"," ","e","x","i","t"," ","c","o","d","e"," ","0">>
L_TRACEBACK == <<"T","r","a","c","e","b","a","c","k"," ","(","m","o","s","t"," ","r","e","c",
    "e","n","t"," ","c","a","l","l"," ","l","a","s","t",")",":">>
L_VALUE_ERROR == <<"V","a","l","u","e","E","r","r","o","r",":"," ","b","a","d">>
L_TEST_FAILED == <<"t","e","s","t","_","a"," ","F","A","I","L","E","D">>
L_GROUP_TEST == <<"#","#","[","g","r","o","u","p","]","T","e","s","t">>
L_FILE == <<" "," ","F","i","l","e"," ","\"","a",".","p","y","\"",","," ","l","i","n","e"," ",
    "1">>
L_TIMED_OUT == <<"t","i","m","e","d"," ","o","u","t">>
L_PLAIN == <<"o","k">>
L_ERROR_BARE == <<"#","#","[","e","r","r","o","r","]">>
L_COMMAND_BARE == <<"#","#","[","c","o","m","m","a","n","d","]">>
L_TEST_PREFIX == <<"F","A","I","L","E","D"," ","t","e","s","t"," ">>

\* the loop of line 354 from line n on, as one evaluation
RECURSIVE ScanFrom(_, _, _)
ScanFrom(s, ls, n) ==
    IF n >= Len(ls) \/ s.raised THEN s ELSE ScanFrom(LineStep(s, ls, n), ls, n + 1)

\* analyze_log_errors(text) as a function: [raised, value]
analyze_log_errors(text) ==
    LET s == ScanFrom(ScanInit, Split(text), 0)
    IN  IF s.raised THEN [raised |-> TRUE, value |-> <<>>]
        ELSE [raised |-> FALSE,
              value |-> Join(Header \o Sections(s.failed_steps, s.error_messages,
                                                DetectPatterns(text), s.exit_codes))]

----------------------------------------------------------------------------
(* get_job_logs, fetch_and_save_logs and the job loop of the script         *)
(* (lines 186-213, 563-622, 713-723).  What the logs endpoint answers for a *)
(* job is the environment's choice: the log text, an HTTP error status, or  *)
(* a failure below HTTP (urllib.error.URLError, a socket error).            *)

Text(body) == [kind |-> "text", code |-> 200, body |-> body]
HttpError(code) == [kind |-> "http", code |-> code, body |-> <<>>]
NetError == [kind |-> "net", code |-> 0, body |-> <<>>]

\* lines 196-213: [raised, value], value an optional str
get_job_logs(resp) ==
    CASE resp.kind = "text" -> [raised |-> FALSE, value |-> Some(resp.body)]
      [] resp.kind = "http" /\ resp.code \in {401, 403, 404} -> [raised |-> FALSE, value |-> None]
      [] OTHER -> [raised |-> TRUE, value |-> None]

\* line 722
Qualifies(job, flag) ==
    job.conclusion = "failure" \/ (flag /\ job.conclusion = "success")

\* lines 598-602: the summary, then the full log
FileContent(error_summary, text) == error_summary \o text

FetchAndSave_HttpOnly(fs, job, resp) ==
    LET got == get_job_logs(resp)
        error_summary == analyze_log_errors(Val(got.value))
    IN  IF got.raised THEN [files |-> fs, raised |-> resp.kind # "http"]
        ELSE IF IsNone(got.value) THEN [files |-> fs, raised |-> FALSE]
        ELSE [files |-> [fs EXCEPT ![job.id] = Some(FileContent(error_summary.value, Val(got.value)))],
              raised |-> FALSE]

\* lines 573-622: [files, raised]; every Exception is caught at line 619, so nothing
\* is raised to the job loop
fetch_and_save_logs(fs, job, resp) ==
    LET got == get_job_logs(resp)
        error_summary == analyze_log_errors(Val(got.value))
    IN  IF got.raised THEN [files |-> fs, raised |-> FALSE]
        ELSE IF IsNone(got.value) THEN [files |-> fs, raised |-> FALSE]
        ELSE IF error_summary.raised THEN [files |-> fs, raised |-> FALSE]
        ELSE [files |-> [fs EXCEPT ![job.id] = Some(FileContent(error_summary.value, Val(got.value)))],
              raised |-> FALSE]

----------------------------------------------------------------------------
(* The logs analysed: every log of at most MaxLines lines over a palette   *)
(* of marker lines, and longer logs that reach the caps and the lookahead  *)
(* windows.                                                                *)

MaxLines == 3

Palette ==
    {L_GROUP_BUILD, L_GROUP_BLANK, L_ENDGROUP, L_COMMAND, L_ERROR, L_EXIT_1, L_EXIT_0,
     L_TRACEBACK, L_VALUE_ERROR, L_TEST_FAILED}

PaletteLogs == {Join(ls) : ls \in UNION {[1..n -> Palette] : n \in 0..MaxLines}}

\* nested groups, closed one after the other
NestedLog ==
    <<L_GROUP_BUILD, L_GROUP_TEST, L_ERROR, L_ENDGROUP, L_ERROR, L_ENDGROUP, L_ERROR>>

\* lines around the caps of 50, 200, 250, 300 and 1000 characters
LongLineLogs ==
    {<<L_GROUP_BUILD, L_ERROR_BARE \o Repeat("x", n)>> : n \in {249, 250, 251, 299, 300, 301}}
    \cup {<<L_COMMAND_BARE \o Repeat("c", n), L_ERROR>> : n \in {49, 50, 51}}
    \cup {<<L_GROUP_BUILD, L_TEST_PREFIX \o Repeat("t", n), L_TEST_PREFIX \o Repeat("t", n)>> :
             n \in {187, 188, 189}}
    \cup {<<L_GROUP_BUILD, L_TRACEBACK>> \o [n \in 1..m |-> Repeat("y", 40)] : m \in {23, 24, 29}}
    \cup {<<<<" ", " ">> \o L_TRACEBACK, Repeat("y", n), L_VALUE_ERROR>> : n \in {247, 248, 249}}

\* a traceback trigger, n lines, the exception line and m lines after it
TracebackLog(n, m) ==
    <<L_TRACEBACK>> \o [x \in 1..n |-> L_FILE] \o <<L_VALUE_ERROR>> \o [x \in 1..m |-> L_PLAIN]

TracebackLogs ==
    {TracebackLog(n, m) : n \in {0, 1, 27, 28, 29, 37, 38, 39}, m \in {0, 3, 4, 5}}
    \cup {<<L_TRACEBACK>> \o [x \in 1..n |-> L_PLAIN] : n \in {38, 39, 40, 41}}
    \cup {<<L_GROUP_BUILD, L_TRACEBACK, L_FILE, L_VALUE_ERROR, L_PLAIN, EMPTY, L_PLAIN>>,
            <<L_TRACEBACK, L_FILE, L_VALUE_ERROR, L_PLAIN, <<" ">> \o L_ENDGROUP, L_PLAIN>>,
            <<L_GROUP_BUILD, L_TRACEBACK, L_ENDGROUP, L_VALUE_ERROR>>,
            <<L_GROUP_BUILD, L_TRACEBACK, L_FILE, L_ENDGROUP, L_VALUE_ERROR>>,
            <<L_GROUP_BUILD, L_TRACEBACK, L_PLAIN, L_PLAIN, L_ERROR, L_VALUE_ERROR>>}

\* a step met again by each kind of finding
RevisitLog ==
    <<L_GROUP_BUILD, L_GROUP_TEST, L_ERROR, L_EXIT_1, L_TRACEBACK, L_ENDGROUP,
      L_EXIT_1, L_ERROR, L_TEST_FAILED, L_ENDGROUP, L_COMMAND, L_TEST_FAILED, L_ERROR>>

\* every cap exceeded by one line of the log
AllCapsLog ==
    <<L_COMMAND_BARE \o Repeat("c", 51), L_TEST_PREFIX \o Repeat("t", 189), L_GROUP_BUILD,
      L_ERROR_BARE \o Repeat("x", 301), L_TRACEBACK>> \o [n \in 1..29 |-> Repeat("y", 40)]

\* two command lines outside any group, then one in a group, then a close too many
TwoCommandsLog ==
    <<L_COMMAND, L_COMMAND_BARE \o <<"t", "e", "s", "t">>, L_ERROR, L_GROUP_BUILD,
      L_COMMAND, L_ENDGROUP, L_ENDGROUP, L_COMMAND>>

ScenarioLogs ==
    {Join(ls) : ls \in {NestedLog, RevisitLog, AllCapsLog, TwoCommandsLog,
                         <<L_TIMED_OUT>>, <<L_PLAIN>>}
                        \cup LongLineLogs \cup TracebackLogs}

InputLogs == PaletteLogs \cup ScenarioLogs

----------------------------------------------------------------------------
(* State *)

VARIABLES
    logs,               \* the argument of analyze_log_errors
    lines,              \* logs.split('\n')
    pc,                 \* "scan": in the loop of line 354; "done": returned; "raised": an exception left the function
    i,                  \* the number of the next line of the loop, from 0
    current_step, step_stack, failed_steps, error_messages,
    in_error_section, error_context, exit_codes,
    tb_lines, j, k,     \* the locals of the traceback lookahead, as the last capture left them
    detected_patterns,
    summary_lines,
    summary,            \* the returned string, None until the function returns
    jobs,               \* jobs['jobs'] of the run, each [id, conclusion]
    all_jobs,           \* args.all_jobs
    job_pc,             \* "loop": in the loop of line 713; "end": past it; "crashed": an exception left it;
                        \* "none": no job loop
    job_idx,            \* the jobs the loop has been through
    fetched,            \* the ids fetch_and_save_logs was called with, in order
    received,           \* what the logs endpoint answered, by job id (None: not asked)
    files,              \* the log files written, by job id (None: no file)
    url,                \* the url of the running call of make_request
    follow_redirects,   \* its argument follow_redirects
    is_redirect,        \* its argument is_redirect
    req_pc,             \* "call": make_request is entered; "returned", "raised": it is left; "none": no call
    sent,               \* the requests handed to the opener so far, each [url, authorization]
    result              \* what left the outermost call: [kind, code]

scanvars == <<logs, lines, pc, i, current_step, step_stack, failed_steps, error_messages,
              in_error_section, error_context, exit_codes, tb_lines, j, k,
              detected_patterns, summary_lines, summary>>
jobvars == <<jobs, all_jobs, job_pc, job_idx, fetched, received, files>>
reqvars == <<url, follow_redirects, is_redirect, req_pc, sent, result>>
vars == <<scanvars, jobvars, reqvars>>

\* no call of make_request is observed
NoRequest ==
    /\ url = <<>>
    /\ follow_redirects = TRUE
    /\ is_redirect = FALSE
    /\ req_pc = "none"
    /\ sent = <<>>
    /\ result = None

\* the scan state as a record
ScanState ==
    [current_step |-> current_step, step_stack |-> step_stack, failed_steps |-> failed_steps,
     error_messages |-> error_messages, in_error_section |-> in_error_section,
     error_context |-> error_context, exit_codes |-> exit_codes,
     tb_lines |-> tb_lines, j |-> j, k |-> k, raised |-> pc = "raised"]

SetScanState(s) ==
    /\ current_step' = s.current_step
    /\ step_stack' = s.step_stack
    /\ failed_steps' = s.failed_steps
    /\ error_messages' = s.error_messages
    /\ in_error_section' = s.in_error_section
    /\ error_context' = s.error_context
    /\ exit_codes' = s.exit_codes
    /\ tb_lines' = s.tb_lines
    /\ j' = s.j
    /\ k' = s.k

\* analyze_log_errors(text) entered: lines 339-352
Enter(text) ==
    /\ logs = text
    /\ lines = Split(text)
    /\ pc = "scan"
    /\ i = 0
    /\ current_step = ScanInit.current_step
    /\ step_stack = ScanInit.step_stack
    /\ failed_steps = ScanInit.failed_steps
    /\ error_messages = ScanInit.error_messages
    /\ in_error_section = ScanInit.in_error_section
    /\ error_context = ScanInit.error_context
    /\ exit_codes = ScanInit.exit_codes
    /\ tb_lines = ScanInit.tb_lines
    /\ j = ScanInit.j
    /\ k = ScanInit.k
    /\ detected_patterns = <<>>
    /\ summary_lines = Header
    /\ summary = None

\* no job loop runs
NoJobs ==
    /\ jobs = <<>>
    /\ all_jobs = FALSE
    /\ job_pc = "none"
    /\ job_idx = 0
    /\ fetched = <<>>
    /\ received = <<>>
    /\ files = <<>>

Init == NoJobs /\ NoRequest /\ \E text \in InputLogs : Enter(text)

\* the loop of line 354 has a next line, or is over
MoreLines == pc = "scan" /\ i < Len(lines)
LinesDone == pc = "scan" /\ i = Len(lines)

\* one pass of the loop of line 354
ProcessLine ==
    /\ MoreLines
    /\ LET s == LineStep(ScanState, lines, i)
       IN  /\ SetScanState(s)
           /\ pc' = IF s.raised THEN "raised" ELSE "scan"
    /\ i' = i + 1
    /\ UNCHANGED <<logs, lines, detected_patterns, summary_lines, summary, jobvars, reqvars>>

\* lines 489-561, after the last line
BuildSummary ==
    /\ LinesDone
    /\ detected_patterns' = DetectPatterns(logs)
    /\ summary_lines' = summary_lines
                         \o Sections(failed_steps, error_messages, detected_patterns', exit_codes)
    /\ summary' = Some(Join(summary_lines'))
    /\ pc' = "done"
    /\ UNCHANGED <<logs, lines, i, current_step, step_stack, failed_steps, error_messages,
                   in_error_section, error_context, exit_codes, tb_lines, j, k, jobvars, reqvars>>

Next == ProcessLine \/ BuildSummary

Spec == Init /\ [][Next]_vars

----------------------------------------------------------------------------
(* The job loop of one run *)

MaxJobs == 3

Conclusions == {"failure", "success", "cancelled", "skipped", "null"}

\* the answers of the logs endpoint
BuildLog == Join(<<L_GROUP_BUILD, L_ERROR>>)
Responses ==
    {Text(BuildLog), Text(EMPTY), HttpError(404), HttpError(500), NetError}

JobLists ==
    UNION {{[n \in 1..len |-> [id |-> n, conclusion |-> c[n]]] : c \in [1..len -> Conclusions]} :
           len \in 1..MaxJobs}

\* no call of analyze_log_errors is observed in the job loop
NoScan ==
    /\ logs = <<>>
    /\ lines = <<>>
    /\ pc = "idle"
    /\ i = 0
    /\ current_step = ScanInit.current_step
    /\ step_stack = ScanInit.step_stack
    /\ failed_steps = ScanInit.failed_steps
    /\ error_messages = ScanInit.error_messages
    /\ in_error_section = ScanInit.in_error_section
    /\ error_context = ScanInit.error_context
    /\ exit_codes = ScanInit.exit_codes
    /\ tb_lines = ScanInit.tb_lines
    /\ j = ScanInit.j
    /\ k = ScanInit.k
    /\ detected_patterns = <<>>
    /\ summary_lines = <<>>
    /\ summary = None

\* line 708: the jobs of the run are listed
InitJobs ==
    /\ NoScan
    /\ NoRequest
    /\ jobs \in JobLists
    /\ all_jobs \in BOOLEAN
    /\ job_pc = "loop"
    /\ job_idx = 0
    /\ fetched = <<>>
    /\ received = [n \in 1..Len(jobs) |-> None]
    /\ files = [n \in 1..Len(jobs) |-> None]

\* lines 713-723 for a job whose logs are fetched
FetchJob ==
    /\ job_pc = "loop"
    /\ job_idx < Len(jobs)
    /\ Qualifies(jobs[job_idx + 1], all_jobs)
    /\ \E resp \in Responses :
          LET job == jobs[job_idx + 1]
              done == fetch_and_save_logs(files, job, resp)
          IN  /\ fetched' = Append(fetched, job.id)
              /\ received' = [received EXCEPT ![job.id] = Some(resp)]
              /\ files' = done.files
              /\ job_pc' = IF done.raised THEN "crashed" ELSE "loop"
    /\ job_idx' = job_idx + 1
    /\ UNCHANGED <<scanvars, reqvars, jobs, all_jobs>>

\* lines 713-722 for a job whose logs are not fetched
SkipJob ==
    /\ job_pc = "loop"
    /\ job_idx < Len(jobs)
    /\ ~Qualifies(jobs[job_idx + 1], all_jobs)
    /\ job_idx' = job_idx + 1
    /\ UNCHANGED <<scanvars, reqvars, jobs, all_jobs, job_pc, fetched, received, files>>

\* the loop of line 713 is over
EndJobs ==
    /\ job_pc = "loop"
    /\ job_idx = Len(jobs)
    /\ job_pc' = "end"
    /\ UNCHANGED <<scanvars, reqvars, jobs, all_jobs, job_idx, fetched, received, files>>

NextJobs == FetchJob \/ SkipJob \/ EndJobs

SpecJobs == InitJobs /\ [][NextJobs]_vars

----------------------------------------------------------------------------
(* make_request (lines 68-165): the requests it hands to the opener and     *)
(* the headers it puts on them.  What the server answers is the             *)
(* environment's choice.  A request made with is_redirect goes through      *)
(* urllib.request.urlopen, whose own handling of further redirects is       *)
(* library code and not part of this model.                                 *)

SCHEME_SEP == <<":","/","/">>
HOST_API == <<"a","p","i",".","g","i","t","h","u","b",".","c","o","m">>
HOST_GITHUB == <<"g","i","t","h","u","b",".","c","o","m">>
DOT_GITHUB == <<".","g","i","t","h","u","b",".","c","o","m">>
URL_JOB_LOGS == <<"h","t","t","p","s",":","/","/","a","p","i",".","g","i","t","h","u","b",".",
    "c","o","m","/","r","e","p","o","s","/","o","/","r","/","a","c","t","i","o","n","s","/","j",
    "o","b","s","/","7","/","l","o","g","s">>
URL_RUN_JOBS == <<"h","t","t","p","s",":","/","/","a","p","i",".","g","i","t","h","u","b",".",
    "c","o","m","/","r","e","p","o","s","/","o","/","r","/","a","c","t","i","o","n","s","/","r",
    "u","n","s","/","3","/","j","o","b","s">>
URL_RUN == <<"h","t","t","p","s",":","/","/","a","p","i",".","g","i","t","h","u","b",".","c",
    "o","m","/","r","e","p","o","s","/","o","/","r","/","a","c","t","i","o","n","s","/","r","u",
    "n","s","/","3">>
URL_ARTIFACTS == <<"h","t","t","p","s",":","/","/","a","p","i",".","g","i","t","h","u","b",".",
    "c","o","m","/","r","e","p","o","s","/","o","/","r","/","a","c","t","i","o","n","s","/","r",
    "u","n","s","/","3","/","a","r","t","i","f","a","c","t","s">>
LOC_BLOB == <<"h","t","t","p","s",":","/","/","r","e","s","u","l","t","s",".","b","l","o","b",
    ".","c","o","r","e",".","w","i","n","d","o","w","s",".","n","e","t","/","l","o","g","s","/",
    "7","?","s","i","g","=","a","b","c">>
LOC_API == <<"h","t","t","p","s",":","/","/","a","p","i",".","g","i","t","h","u","b",".","c",
    "o","m","/","r","e","p","o","s","/","o","/","r","/","a","c","t","i","o","n","s","/","j","o",
    "b","s","/","7","/","l","o","g","s","/","r","a","w">>
LOC_GITHUB == <<"h","t","t","p","s",":","/","/","g","i","t","h","u","b",".","c","o","m","/","o",
    "/","r","/","c","o","m","m","i","t","/","1","/","c","h","e","c","k","s","/","7","/","l","o",
    "g","s">>
LOC_PATH == <<"h","t","t","p","s",":","/","/","l","o","g","s",".","e","x","a","m","p","l","e",
    ".","n","e","t","/","g","i","t","h","u","b",".","c","o","m","/","o","/","r","/","7">>
LOC_QUERY == <<"h","t","t","p","s",":","/","/","l","o","g","s",".","e","x","a","m","p","l","e",
    ".","n","e","t","/","7","?","f","r","o","m","=","a","p","i",".","g","i","t","h","u","b",".",
    "c","o","m">>
LOC_SUFFIX == <<"h","t","t","p","s",":","/","/","g","i","t","h","u","b",".","c","o","m",".","e",
    "x","a","m","p","l","e",".","n","e","t","/","l","o","g","s","/","7">>
LOC_PREFIX == <<"h","t","t","p","s",":","/","/","m","y","g","i","t","h","u","b",".","c","o","m",
    "/","l","o","g","s","/","7">>
LOC_USER == <<"h","t","t","p","s",":","/","/","g","i","t","h","u","b",".","c","o","m","@","e",
    "x","a","m","p","l","e",".","n","e","t","/","l","o","g","s","/","7">>

\* the first position of a character of cs in s, Len(s) + 1 when there is none
FirstOf(s, cs) ==
    LET at == {a \in 1..Len(s) : s[a] \in cs} IN IF at = {} THEN Len(s) + 1 ELSE SetMin(at)
\* the last position of character c in s, 0 when there is none
LastOf(s, c) ==
    LET at == {a \in 1..Len(s) : s[a] = c} IN IF at = {} THEN 0 ELSE SetMax(at)
\* s[n:]
Drop(s, n) == SubSeq(s, n + 1, Len(s))

\* the host a request for u goes to (urllib.request.Request(url).host without the
\* user information and the port)
Netloc(u) ==
    LET rest == Drop(u, Find(u, SCHEME_SEP) + Len(SCHEME_SEP) - 1)
    IN  Take(rest, FirstOf(rest, {"/", "?", "#"}) - 1)
Host(u) ==
    LET hostport == Drop(Netloc(u), LastOf(Netloc(u), "@"))
    IN  Take(hostport, FirstOf(hostport, {":"}) - 1)

\* line 84
is_github_url(u) == Contains(u, HOST_API) \/ Contains(u, HOST_GITHUB)

\* lines 80-89: the request and whether it carries the Authorization header
BuildRequest(u, redirected) ==
    [url |-> u, authorization |-> ~redirected \/ is_github_url(u)]

\* line 110
REDIRECT_CODES == {301, 302, 303, 307, 308}
ERROR_CODES == {401, 403, 404, 500}

StartUrls == {URL_JOB_LOGS, URL_RUN_JOBS, URL_RUN, URL_ARTIFACTS}
Locations ==
    {LOC_BLOB, LOC_API, LOC_GITHUB, LOC_PATH, LOC_QUERY, LOC_SUFFIX, LOC_PREFIX, LOC_USER}

Left(kind, code) == Some([kind |-> kind, code |-> code])

\* a caller enters make_request(url) or make_request(url, follow_redirects=True)
InitRequest ==
    /\ NoScan
    /\ NoJobs
    /\ url \in StartUrls
    /\ follow_redirects = TRUE
    /\ is_redirect = FALSE
    /\ req_pc = "call"
    /\ sent = <<>>
    /\ result = None

\* lines 80-138: the request is answered with a body
Answered ==
    /\ req_pc = "call"
    /\ sent' = Append(sent, BuildRequest(url, is_redirect))
    /\ \E kind \in {"text", "json"} : result' = Left(kind, 200)
    /\ req_pc' = "returned"
    /\ UNCHANGED <<scanvars, jobvars, url, follow_redirects, is_redirect>>

\* lines 80-114: the first request is answered with a redirect that names a location,
\* and make_request calls itself for it
Redirected ==
    /\ req_pc = "call"
    /\ follow_redirects /\ ~is_redirect
    /\ sent' = Append(sent, BuildRequest(url, is_redirect))
    /\ \E redirect_url \in Locations : url' = redirect_url
    /\ follow_redirects' = FALSE
    /\ is_redirect' = TRUE
    /\ UNCHANGED <<scanvars, jobvars, req_pc, result>>

\* lines 80-120, 139-165: the request fails: an HTTP error status, a redirect status
\* without a location (handler.redirect_url was never set), or a failure below HTTP
Failed ==
    /\ req_pc = "call"
    /\ sent' = Append(sent, BuildRequest(url, is_redirect))
    /\ \/ \E code \in ERROR_CODES : result' = Left("HTTPError", code)
       \/ /\ follow_redirects /\ ~is_redirect
          /\ \E code \in REDIRECT_CODES : result' = Left("AttributeError", code)
       \/ result' = Left("URLError", 0)
    /\ req_pc' = "raised"
    /\ UNCHANGED <<scanvars, jobvars, url, follow_redirects, is_redirect>>

NextRequest == Answered \/ Redirected \/ Failed

SpecRequest == InitRequest /\ [][NextRequest]_vars

----------------------------------------------------------------------------
(* Properties *)

\* the line the last ProcessLine step worked on
Processed == pc # "done" /\ i >= 1
LastLine == LineAt(lines, i - 1)

\* the line the next ProcessLine step works on carries no marker other than m
OnlyMarker(line, m) == Contains(line, m) /\ Occurrences(line, MARK_ANY) = Occurrences(line, m)

NoRepeat(q) == \A a, b \in 1..Len(q) : a # b => q[a] # q[b]

\* C1: at the end of analyze_log_errors no FailedStep holds two equal error strings
C1_NoDuplicateErrors ==
    pc = "done" => \A x \in 1..Len(failed_steps) : NoRepeat(failed_steps[x].errors)

\* C2: a line "Process completed with exit code N", N not "0", met with no group open
\* and no current step, appends the record (N, absent) and creates a FailedStep whose
\* error is "Process exited with code N"
C2_ExitCodeWithoutStep ==
    [][(/\ pc = "scan" /\ i < Len(lines)
        /\ Contains(LineAt(lines, i), EXIT_PHRASE)
        /\ ~Contains(LineAt(lines, i), MARK_ANY)
        /\ ~IsNone(ExitCodeMatch(LineAt(lines, i)))
        /\ Val(ExitCodeMatch(LineAt(lines, i))) # <<"0">>
        /\ step_stack = <<>> /\ IsNone(current_step))
       => (/\ exit_codes' = Append(exit_codes, <<Val(ExitCodeMatch(LineAt(lines, i))), None>>)
           /\ Len(failed_steps') = Len(failed_steps) + 1
           /\ failed_steps'[Len(failed_steps')].errors
                  = <<ExitedMessage(Val(ExitCodeMatch(LineAt(lines, i))))>>)]_vars

Emitted(head) == \E x \in 1..Len(summary_lines) : summary_lines[x] = head
ContentEmitted ==
    Emitted(FAILED_STEPS_HEAD) \/ Emitted(KEY_ERRORS_HEAD) \/ Emitted(DETECTED_HEAD)
    \/ Emitted(NON_ZERO_HEAD)

\* C3: the fallback line is in the summary exactly when none of the four content
\* sections is
C3_FallbackIffNoSection ==
    pc = "done" => (Emitted(FALLBACK_1) <=> ~ContentEmitted)

\* C4: after every processed line no two entries of failed_steps have the same name
C4_UniqueStepNames ==
    \A x, y \in 1..Len(failed_steps) : x # y => failed_steps[x].name # failed_steps[y].name

\* C4 witness: two steps, one of them met again by a later finding
C4_Witness ==
    /\ pc = "done"
    /\ Len(failed_steps) >= 2
    /\ \E x \in 1..Len(failed_steps) : Len(failed_steps[x].errors) >= 2
    /\ Len(exit_codes) >= 2

\* C5: an error-marker line with non-empty text met while a group is open goes to the
\* innermost open group, and the log group-open "Build", error "Compile failed",
\* group-close leaves exactly the step "Build" with errors ["Compile failed"]
C5_ErrorToInnermostGroup ==
    /\ [](logs = Join(<<L_GROUP_BUILD, L_ERROR, L_ENDGROUP>>) /\ pc = "done"
            => failed_steps = <<NewStep(Strip(Val(AfterMarker(L_GROUP_BUILD, MARK_GROUP))),
                                        <<Strip(RemoveAll(L_ERROR, MARK_ERROR))>>)>>)
    /\ [][(/\ pc = "scan" /\ i < Len(lines)
           /\ OnlyMarker(LineAt(lines, i), MARK_ERROR)
           /\ Strip(RemoveAll(LineAt(lines, i), MARK_ERROR)) # <<>>
           /\ step_stack # <<>>)
          => (\E x \in 1..Len(failed_steps') :
                /\ failed_steps'[x].name = step_stack[Len(step_stack)]
                /\ failed_steps'[x].errors # <<>>
                /\ failed_steps'[x].errors[Len(failed_steps'[x].errors)]
                       = Strip(RemoveAll(LineAt(lines, i), MARK_ERROR)))]_vars

\* the errors a step of the scan appended to the steps: those of fs2 that fs1 lacks
NewErrors(fs1, fs2) ==
    UNION {{fs2[x].errors[y] :
              y \in (IF x <= Len(fs1) THEN Len(fs1[x].errors) + 1 ELSE 1)..Len(fs2[x].errors)} :
           x \in 1..Len(fs2)}

\* the previews as rendered: the text after "    Error: " and after "  n. "
StepPreviews ==
    {SubSeq(summary_lines[x], Len(ERROR_LABEL) + 1, Len(summary_lines[x])) :
        x \in {y \in 1..Len(summary_lines) : StartsWith(summary_lines[y], ERROR_LABEL)}}
KeyErrorPreviews ==
    IF ~Emitted(KEY_ERRORS_HEAD) THEN {}
    ELSE LET head == SetMin({x \in 1..Len(summary_lines) : summary_lines[x] = KEY_ERRORS_HEAD})
         IN  {SubSeq(summary_lines[head + 1 + n], Len(KeyErrorLine(n, <<>>)) + 1,
                     Len(summary_lines[head + 1 + n])) :
                 n \in 1..Min2(KEY_ERROR_COUNT, Len(error_messages))}

\* what the next ProcessLine step works on
Scanning == MoreLines
TestOnlyLine(line) ==
    /\ TestFailureLine(line) /\ ~TracebackTrigger(line)
    /\ ~Contains(line, MARK_ERROR) /\ ~Contains(line, EXIT_PHRASE)
TracebackOnlyLine(line) ==
    /\ TracebackTrigger(line) /\ ~TestFailureLine(line)
    /\ ~Contains(line, MARK_ERROR) /\ ~Contains(line, EXIT_PHRASE)
CommandOnlyLine(line) == OnlyMarker(line, MARK_COMMAND)

\* the caps on what a step stores and on what the last step renders, with the cap of
\* a command-step name and of a rendered key-error preview as parameters
CapsStep(name_cap, key_cap) ==
    /\ pc' = "done" =>
         /\ \A p \in StepPreviews' : Len(p) <= STEP_PREVIEW_CAP
         /\ \A p \in KeyErrorPreviews' : Len(p) <= key_cap
    /\ Scanning =>
         /\ TestOnlyLine(LineAt(lines, i)) =>
              \A e \in NewErrors(failed_steps, failed_steps') : Len(e) <= TEST_LINE_CAP
         /\ TracebackOnlyLine(LineAt(lines, i)) =>
              \A e \in NewErrors(failed_steps, failed_steps') : Len(e) <= TRACEBACK_PREVIEW
         /\ CommandOnlyLine(LineAt(lines, i)) /\ current_step' # current_step =>
              Len(Val(current_step')) <= name_cap

\* C6 as claimed: the failed-step preview is at most 250 characters, a key-error
\* preview with its ellipsis marker at most 300, a stored test-failure line at most
\* 200, a synthetic command-step name at most 50 and a traceback entry of a step at
\* most 1000
C6_CapsAsClaimed == [][CapsStep(COMMAND_CAP, KEY_ERROR_CAP)]_vars

\* C6 amended: as C6, but a key-error preview is at most 300 characters plus the
\* ellipsis marker, and a synthetic command-step name is "Command: " plus at most 50
\* characters of the command
C6_Caps == [][CapsStep(Len(COMMAND_PREFIX) + COMMAND_CAP, KEY_ERROR_CAP + Len(ELLIPSIS))]_vars

\* C6 witness: one log whose lines are cut by each of the five caps
C6_Witness ==
    /\ pc = "done"
    /\ Len(failed_steps) = 2
    /\ Len(failed_steps[1].name) = Len(COMMAND_PREFIX) + COMMAND_CAP
    /\ Len(failed_steps[1].errors[1]) = TEST_LINE_CAP
    /\ Len(failed_steps[2].errors[1]) > KEY_ERROR_CAP
    /\ Len(failed_steps[2].errors[2]) = TRACEBACK_PREVIEW
    /\ \E p \in StepPreviews : Len(p) = STEP_PREVIEW_CAP
    /\ \E p \in KeyErrorPreviews : Len(p) = KEY_ERROR_CAP + Len(ELLIPSIS)
    /\ Len(lines[1]) > Len(MARK_COMMAND) + COMMAND_CAP
    /\ Len(lines[2]) > TEST_LINE_CAP
    /\ Len(error_messages[2]) > TRACEBACK_PREVIEW

\* lines a..b of ls, numbered from 0
Slice(ls, a, b) == SubSeq(ls, a + 1, b + 1)

\* the state right after the scan of a traceback trigger line, line number i - 1
AfterTrigger == i >= 1 /\ TracebackTrigger(LineAt(lines, i - 1))
ExceptionsAfter(n) == {e \in (n + 1)..(Len(lines) - 1) : ExceptionLine(LineAt(lines, e))}
FirstException(n) == SetMin(ExceptionsAfter(n))

\* the lines after line e that belong to the block: at most 4, up to the first that
\* stops(line) holds of
TrailingLines(e, stops(_)) ==
    LET last == Min2(e + TRAILING_WINDOW - 1, Len(lines) - 1)
        halt == {c \in (e + 1)..last : stops(LineAt(lines, c))}
    IN  Slice(lines, e + 1, IF halt = {} THEN last ELSE SetMin(halt) - 1)

EmptyOrMarker(line) == line = <<>> \/ StartsWith(line, MARK_HASHES)
BlankOrMarker(line) == Strip(line) = <<>> \/ StartsWith(Strip(line), MARK_HASHES)

\* the scan meets a "##[" line that ends it before line e
MarkerStopsBefore(n, e) ==
    \E m \in (n + 1)..(e - 1) : MarkerBreak(LineAt(lines, m), Slice(lines, n, m))

\* C7 as claimed: the block captured at a trigger line is the trigger line, every line
\* up to and including the first following exception-style line, and then at most 4
\* following lines, up to the first of them that is empty or starts with "##"
C7_CaptureAsClaimed ==
    AfterTrigger /\ ExceptionsAfter(i - 1) # {} =>
        tb_lines = Slice(lines, i - 1, FirstException(i - 1))
                   \o TrailingLines(FirstException(i - 1), EmptyOrMarker)

\* C7 amended: when the first following exception-style line is among the 39 lines
\* after the trigger and no "##[" line ends the scan before it, the captured lines are
\* the trigger line, every line up to and including that exception line, and then at
\* most 4 following lines, up to the first of them that is blank or starts with "##"
\* once trimmed; the block stored is the first 30 captured lines
C7_Capture ==
    (/\ AfterTrigger /\ ExceptionsAfter(i - 1) # {}
     /\ FirstException(i - 1) < i - 1 + TRACEBACK_WINDOW
     /\ ~MarkerStopsBefore(i - 1, FirstException(i - 1)))
    => /\ tb_lines = Slice(lines, i - 1, FirstException(i - 1))
                     \o TrailingLines(FirstException(i - 1), BlankOrMarker)
       /\ error_messages # <<>>
       /\ error_messages[Len(error_messages)] = Join(Take(tb_lines, TRACEBACK_JOIN))

\* C7 witness: a capture that ends 4 lines after the exception line, with more lines
\* in the log
C7_Witness ==
    /\ AfterTrigger /\ ExceptionsAfter(i - 1) # {}
    /\ FirstException(i - 1) > i
    /\ Len(tb_lines) = FirstException(i - 1) - (i - 1) + TRAILING_WINDOW
    /\ Len(lines) > FirstException(i - 1) + TRAILING_WINDOW

TableIndex(d) ==
    CHOOSE n \in 1..Len(failure_patterns) : failure_patterns[n].description = d

\* C8: detected_patterns holds exactly the descriptions of the table entries whose
\* regex matches the text, in table order, each at most once
C8_DetectedPatterns ==
    pc = "done" =>
        /\ \A x \in 1..Len(detected_patterns) :
              \E n \in 1..Len(failure_patterns) :
                  failure_patterns[n].description = detected_patterns[x]
        /\ \A x, y \in 1..Len(detected_patterns) :
              x < y => TableIndex(detected_patterns[x]) < TableIndex(detected_patterns[y])
        /\ \A n \in 1..Len(failure_patterns) :
              (\E x \in 1..Len(detected_patterns) :
                  detected_patterns[x] = failure_patterns[n].description)
              <=> PatternMatches(failure_patterns[n], Lower(logs))

\* C8 witness: two entries match, one of them at two places of the text
C8_Witness ==
    /\ pc = "done"
    /\ Len(detected_patterns) >= 2
    /\ \E n \in 1..Len(failure_patterns) :
          Cardinality(Occurrences(Lower(logs), Lower(failure_patterns[n].alts[1].pre))) >= 2

EndsWith(s, p) == MatchAt(s, p, Len(s) - Len(p) + 1)

\* C9: analyze_log_errors never raises and never reads past the last line; until it
\* returns a step is possible, and each step takes the next line or returns; the
\* string returned starts with the "ERROR SUMMARY" banner and ends with the "Full log
\* follows below:" banner
C9_State ==
    /\ pc \in {"scan", "done"}
    /\ i \in 0..Len(lines)
    /\ j < Len(lines)
    /\ k < Len(lines)
    /\ pc = "scan" => MoreLines \/ LinesDone
    /\ pc = "done" =>
         /\ ~IsNone(summary)
         /\ StartsWith(Val(summary), Join(Header))
         /\ EndsWith(Val(summary), Join(Trailer))
C9_Terminates ==
    /\ []C9_State
    /\ [][(pc' = "scan" /\ i' = i + 1) \/ (pc' = "done" /\ i = Len(lines))]_vars

\* C9 witness: the function returned after a lookahead that the end of the log cut
C9_Witness ==
    /\ pc = "done"
    /\ j >= 0
    /\ k = Len(lines) - 1
    /\ j + TRAILING_WINDOW > Len(lines)

InSeq(q, x) == \E n \in 1..Len(q) : q[n] = x
GotText(answer) == ~IsNone(answer) /\ Val(answer).kind = "text"
Retrieved(n) == GotText(received[n])
FetchFailed(n) == ~IsNone(received[n]) /\ Val(received[n]).kind # "text"

\* the file fetch_and_save_logs writes for a log: the summary, then the log itself
Written(file, body) ==
    /\ ~IsNone(file)
    /\ Val(file) = analyze_log_errors(body).value \o body
    /\ StartsWith(Val(file), Join(Header))
    /\ EndsWith(Val(file), Join(Trailer) \o body)

\* one pass of the loop over job n: a job that qualifies is fetched whatever happened
\* to the jobs before it, its file is written when its log was retrieved, and no
\* other file changes
JobPass(n) ==
    /\ n \in 1..Len(jobs)
    /\ job_idx' = n
    /\ Qualifies(jobs[n], all_jobs) <=> fetched' = Append(fetched, jobs[n].id)
    /\ ~Qualifies(jobs[n], all_jobs) => fetched' = fetched
    /\ IF GotText(received'[n]) THEN Written(files'[n], Val(received'[n]).body)
                               ELSE IsNone(files'[n])
    /\ \A m \in 1..Len(jobs) : m # n => files'[m] = files[m]

\* C10: a failure to retrieve the log of one job does not stop the job loop: no
\* exception leaves the loop, every pass takes the next job of the list and fetches
\* it when its conclusion qualifies, the loop ends only past the last job, and a job
\* has a file exactly when its log was retrieved, the summary followed by the log
C10_State ==
    /\ job_pc \in {"loop", "end"}
    /\ job_pc = "end" => job_idx = Len(jobs)
    /\ \A n \in 1..job_idx : Qualifies(jobs[n], all_jobs) <=> InSeq(fetched, jobs[n].id)
    /\ \A n \in 1..Len(jobs) : Retrieved(n) <=> ~IsNone(files[n])
C10_LoopSurvivesFailures ==
    /\ []C10_State
    /\ [][JobPass(job_idx + 1) \/ (job_pc' = "end" /\ job_idx = Len(jobs))]_vars

\* C10 witness: the loop is over, the log of one job was refused (absent result), that
\* of a later one failed with another error, and a job after both has its file
C10_Witness ==
    /\ job_pc = "end"
    /\ \E a, b, c \in 1..Len(jobs) :
          /\ a < b /\ b < c
          /\ FetchFailed(a) /\ Val(received[a]).code = 404
          /\ FetchFailed(b) /\ Val(received[b]).kind = "net"
          /\ Retrieved(c) /\ Val(received[c]).body # <<>> /\ ~IsNone(files[c])

IsGitHubHost(h) ==
    \/ h = HOST_GITHUB
    \/ Len(h) > Len(DOT_GITHUB) /\ LastN(h, Len(DOT_GITHUB)) = DOT_GITHUB

\* C11: when make_request follows a redirect, no request that carries the
\* Authorization header goes to a host other than a GitHub host, whatever the
\* redirect URL is
C11_NoTokenOffOrigin ==
    \A n \in 1..Len(sent) : sent[n].authorization => IsGitHubHost(Host(sent[n].url))

\* the step current_step should name for a stack: its top, absent when it is empty
TopOf(stack) == IF stack # <<>> THEN Some(stack[Len(stack)]) ELSE None

\* C12: after a group-close line without a command marker is processed, the current
\* step is the new top of the step stack, and absent when the stack is empty; a
\* group-close met with an empty stack leaves the stack empty and the current step
\* absent
C12_CloseRestoresTop ==
    [][(/\ pc = "scan" /\ i < Len(lines)
        /\ Contains(LineAt(lines, i), MARK_ENDGROUP)
        /\ ~Contains(LineAt(lines, i), MARK_COMMAND))
       => (/\ current_step' = TopOf(step_stack')
           /\ step_stack = <<>> => step_stack' = <<>>)]_vars

\* C13: a command-marker line with non-empty command text sets the current step to
\* "Command: " + the first 50 characters of the command exactly when the step stack
\* is empty, leaves it unchanged otherwise, and never changes the stack
C13_CommandIffStackEmpty ==
    [][(/\ pc = "scan" /\ i < Len(lines)
        /\ OnlyMarker(LineAt(lines, i), MARK_COMMAND)
        /\ ~IsNone(AfterMarker(LineAt(lines, i), MARK_COMMAND))
        /\ Strip(Val(AfterMarker(LineAt(lines, i), MARK_COMMAND))) # <<>>)
       => (/\ step_stack' = step_stack
           /\ current_step' =
                 IF step_stack = <<>>
                 THEN Some(COMMAND_PREFIX
                           \o Take(Strip(Val(AfterMarker(LineAt(lines, i), MARK_COMMAND))), 50))
                 ELSE current_step)]_vars

\* C14: in every state of the scan, a non-empty step stack has the current step at
\* its top
C14_CurrentIsTop ==
    step_stack # <<>> => current_step = TopOf(step_stack)

HasMoreErrors(step) == Len(step.errors) > 1
IsCountLine(line) == StartsWith(line, MORE_OPEN)
\* the count lines of the summary, and the places they are at
CountLines == SelectSeq(summary_lines, IsCountLine)
CountLinePlaces == {x \in 1..Len(summary_lines) : IsCountLine(summary_lines[x])}

\* C15: in the FAILED STEPS section a step with n > 1 stored errors has, after its
\* first-error preview, a line that reports n - 1 more errors, and a step with at
\* most one error has no such line
C15_CountOfAdditionalErrors ==
    pc = "done" =>
        /\ CountLines =
              [x \in 1..Len(SelectSeq(failed_steps, HasMoreErrors)) |->
                  MORE_OPEN \o Str(Len(SelectSeq(failed_steps, HasMoreErrors)[x].errors) - 1)
                  \o MORE_CLOSE]
        /\ \A x \in CountLinePlaces : x > 1 /\ StartsWith(summary_lines[x - 1], ERROR_LABEL)

\* the n-th entry of the KEY ERROR MESSAGES section, without its "  n. "
KeyErrorPreview(n) ==
    LET head == SetMin({x \in 1..Len(summary_lines) : summary_lines[x] = KEY_ERRORS_HEAD})
    IN  SubSeq(summary_lines[head + 1 + n], Len(KeyErrorLine(n, <<>>)) + 1,
               Len(summary_lines[head + 1 + n]))

\* C16: an entry of the KEY ERROR MESSAGES section carries the ellipsis marker exactly
\* when its newline-collapsed, trimmed text is longer than 300 characters; a text that
\* fits is rendered whole and without the marker
C16_EllipsisIffCut ==
    pc = "done" =>
        \A n \in 1..Min2(KEY_ERROR_COUNT, Len(error_messages)) :
            KeyErrorPreview(n) =
                IF Len(Strip(CollapseNewlines(error_messages[n]))) > 300
                THEN Take(Strip(CollapseNewlines(error_messages[n])), 300) \o ELLIPSIS
                ELSE Strip(CollapseNewlines(error_messages[n]))

\* none of the w lines after line n, as far as the log goes, is an exception-style line
\* or a marker line that ends the scan
NothingStops(n, w) ==
    \A m \in (n + 1)..Min2(n + w, Len(lines) - 1) :
        /\ ~ExceptionLine(LineAt(lines, m))
        /\ ~MarkerBreak(LineAt(lines, m), Slice(lines, n, m))

\* the capture at the trigger line just scanned took that line and the w lines after
\* it, as far as the log goes, and stored the first 30 captured lines
CapturedWindow(w) ==
    AfterTrigger /\ NothingStops(i - 1, w) =>
        /\ tb_lines = Slice(lines, i - 1, Min2(i - 1 + w, Len(lines) - 1))
        /\ error_messages # <<>>
        /\ error_messages[Len(error_messages)] = Join(Take(tb_lines, 30))

\* C17 as claimed: with no exception-style line and no stopping marker met, the
\* capture takes the trigger line and up to 40 subsequent lines, all 40 when the log
\* has them, and the block stored is the first 30 captured lines joined by newlines
C17_WindowAsClaimed == CapturedWindow(40)

\* C17 amended: the capture takes the trigger line and up to 39 subsequent lines, all
\* 39 when the log has them (40 lines with the trigger line), and the block stored is
\* the first 30 captured lines joined by newlines
C17_Window == CapturedWindow(TRACEBACK_WINDOW - 1)

\* C17 witness: a trigger line followed by at least 40 lines none of which stops the
\* capture: 40 lines are captured and 30 of them stored
C17_Witness ==
    /\ AfterTrigger /\ NothingStops(i - 1, 40)
    /\ Len(lines) - i >= 40
    /\ Len(tb_lines) = 40
    /\ error_messages[Len(error_messages)] = Join(Take(tb_lines, 30))
    /\ error_messages[Len(error_messages)] # Join(tb_lines)

\* C18: with --all-jobs the logs of every job the loop has been through are fetched,
\* whatever its conclusion; without it, those of the jobs whose conclusion is failure
\* and no others
C18_AllJobsFetchesAll ==
    \A n \in 1..job_idx :
        InSeq(fetched, jobs[n].id) <=> (all_jobs \/ jobs[n].conclusion = "failure")

====
